---- MODULE Spec2Model ----
(***************************************************************************)
(* Commit-log replayer (db/commitlog/commitlog_replayer.cc).               *)
(*                                                                         *)
(* The model follows the two phases of the replayer:                       *)
(*   init()          the map-reduce over all cpus that builds _rpm and     *)
(*                   _min_pos from sstable metadata and truncation records *)
(*   recover(files)  the per-cpu serial replay of segments, with the       *)
(*                   per-entry process() and the cross-shard apply.        *)
(***************************************************************************)
EXTENDS Integers, Sequences, FiniteSets, TLC

\* ------------------------------------------------------------------ bounds
ShardCount == 2      \* smp::count, the number of cpus of this boot
MaxSeg == 2          \* largest segment id
MaxPos == 2          \* largest offset inside a segment
MaxFiles == 2        \* longest list given to recover
MaxEntries == 2      \* most framed entries in the files of one recover
MaxCorrupt == 1      \* most bytes reported by segment_data_corruption_error
WideCount == 3       \* smp::count of a boot on a wider machine

VARIABLE smp_count   \* smp::count: the number of cpus, fixed at boot

Cpus == 0 .. (smp_count - 1)
\* Shard ids found in replay positions on disk.
ShardIds == Cpus

\* The live catalogue (get_column_families), a table id that is in no
\* catalogue (a dropped table) and a value that is no table id at all.
Catalogue == {"t1", "t2"}
DroppedTable == "t0"
GarbageId == "tx"

\* Schema versions: the version of the live schemas and an older one.
LiveVersion == "v1"
OldVersion == "v0"
Versions == {LiveVersion, OldVersion}

\* ------------------------------------------------------- replay_position
Pos(sh, id, off) == [shard |-> sh, id |-> id, pos |-> off]

\* replay_position(): the default (empty) position.
EmptyPos == Pos(0, 0, 0)

\* operator< of replay_position: lexicographic on (id, pos).
PosLess(a, b) == a.id < b.id \/ (a.id = b.id /\ a.pos < b.pos)

\* operator<= of replay_position.
PosLeq(a, b) == ~PosLess(b, a)

\* std::max(a, b): returns b only when a < b.
PosMax(a, b) == IF PosLess(a, b) THEN b ELSE a

\* ------------------------------------------------------------------ maps
\* std::unordered_map as a function with a finite domain.
EmptyMap == [k \in {} |-> EmptyPos]

Put(m, k, v) == [x \in (DOMAIN m) \cup {k} |-> IF x = k THEN v ELSE m[x]]

\* auto& pp = map[shard][uuid]; pp = std::max(pp, p);
\* operator[] default-constructs the missing inner map and the missing position.
MaxInto(map, sh, uuid, p) ==
    LET inner == IF sh \in DOMAIN map THEN map[sh] ELSE EmptyMap
        pp == IF uuid \in DOMAIN inner THEN inner[uuid] ELSE EmptyPos
    IN  Put(map, sh, Put(inner, uuid, PosMax(pp, p)))

\* The (shard, uuid) pairs of a shard_rpm_map, as the nested loops visit them.
Keys(map) == UNION {{<<sh, u>> : u \in DOMAIN map[sh]} : sh \in DOMAIN map}

\* --------------------------------------------------------------- init()
\* Positions found in sstable metadata: the empty position (an sstable
\* flushed by an earlier replay) or a position of some writing shard.
WatermarkPos == MaxPos - 1
SstPositions == {EmptyPos} \cup {Pos(sh, id, WatermarkPos) : sh \in ShardIds, id \in 1 .. MaxSeg}
TruncPositions == {Pos(sh, MaxSeg, WatermarkPos) : sh \in ShardIds}

\* Sets of at most one element.
AtMostOne(S) == {{}} \cup {{x} : x \in S}

\* What the continuation at line 163 can read through its captured reference
\* to the local uuid of the enclosing lambda, which has returned by the time
\* a not-yet-ready future resolves: the right id or any other value.
UuidReads(t) == Catalogue \cup {GarbageId}

\* for (p : positions) { auto& pp = map[p.shard_id()][uuid]; pp = std::max(pp, p); }
RECURSIVE FoldPositions(_, _, _)
FoldPositions(map, uuid, ps) ==
    IF ps = {} THEN map
    ELSE LET p == CHOOSE x \in ps : TRUE
         IN  FoldPositions(MaxInto(map, p.shard, uuid, p), uuid, ps \ {p})

\* The body of the parallel_for_each lambda for one column family: the
\* sstable loop under the table's uuid, then the truncation records under
\* whatever the continuation reads as uuid.
MapColumnFamily(map, uuid, ssts, tpps, uuidRead) ==
    FoldPositions(FoldPositions(map, uuid, ssts), uuidRead, tpps)

\* The mapper of the map_reduce: one shard_rpm_map per cpu.
RECURSIVE MapTables(_, _, _, _, _)
MapTables(map, tables, sst, trunc, uu) ==
    IF tables = {} THEN map
    ELSE LET t == CHOOSE x \in tables : TRUE
         IN  MapTables(MapColumnFamily(map, t, sst[t], trunc[t], uu[t]),
                       tables \ {t}, sst, trunc, uu)

Mapper(sst, trunc, uu) == MapTables(EmptyMap, Catalogue, sst, trunc, uu)

\* ReduceOne with the global minimum taken from the first contribution only.
ReduceOneFirstWins(st, sh, uuid, p) ==
    [rpm |-> MaxInto(st.rpm, sh, uuid, p),
     min |-> IF sh \notin DOMAIN st.min THEN Put(st.min, sh, p) ELSE st.min]

\* The reducer of the map_reduce, for one (shard, uuid, position) of a map.
ReduceOne(st, sh, uuid, p) ==
    [rpm |-> MaxInto(st.rpm, sh, uuid, p),
     min |-> IF sh \notin DOMAIN st.min \/ PosLess(p, st.min[sh])
             THEN Put(st.min, sh, p) ELSE st.min]

RECURSIVE ReduceKeys(_, _, _)
ReduceKeys(st, map, keys) ==
    IF keys = {} THEN st
    ELSE LET k == CHOOSE x \in keys : TRUE
         IN  ReduceKeys(ReduceOne(st, k[1], k[2], map[k[1]][k[2]]), map, keys \ {k})

Reducer(st, map) == ReduceKeys(st, map, Keys(map))

\* The finally block: a shard of _rpm that lacks a catalogue table gets the
\* empty position as its global minimum. Only the shards of _rpm are visited.
Finally(rpmv, minv) ==
    LET missing == {sh \in DOMAIN rpmv : \E t \in Catalogue : t \notin DOMAIN rpmv[sh]}
    IN  [sh \in (DOMAIN minv) \cup missing |->
            IF sh \in missing THEN EmptyPos ELSE minv[sh]]

\* ----------------------------------------------------------------- stats
ZeroStats == [applied |-> 0, skipped |-> 0, invalid |-> 0, corrupt |-> 0]

\* stats::operator+=
StatsAdd(a, b) ==
    [applied |-> a.applied + b.applied, skipped |-> a.skipped + b.skipped,
     invalid |-> a.invalid + b.invalid, corrupt |-> a.corrupt + b.corrupt]

RECURSIVE StatsSum(_, _)
StatsSum(f, S) ==
    IF S = {} THEN ZeroStats
    ELSE LET c == CHOOSE x \in S : TRUE IN StatsAdd(StatsSum(f, S \ {c}), f[c])

Counted(s) == s.applied + s.skipped + s.invalid

\* ----------------------------------------------------- files and entries
\* A segment file name: a descriptor (shard id, segment id), or a name that
\* commitlog::descriptor rejects.
BadName == [shard |-> 0, id |-> 0, named |-> FALSE]
FileNames == [shard : ShardIds, id : 1 .. MaxSeg, named : {TRUE}] \cup {BadName}
FileLists == UNION {[1 .. n -> FileNames] : n \in 0 .. MaxFiles}

\* A framed entry: a buffer that commitlog_entry_reader rejects, or a frozen
\* mutation with its table, schema version and optional column mapping.
BadEntry == [bad |-> TRUE, table |-> "t1", version |-> LiveVersion, mapping |-> FALSE]
Entries ==
    {BadEntry} \cup
    [bad : {FALSE}, table : {"t1"}, version : Versions, mapping : BOOLEAN] \cup
    [bad : {FALSE}, table : {DroppedTable}, version : {LiveVersion}, mapping : {TRUE}]

\* -------------------------------------------------------------- recover
\* read_log_file(file, callback, start): the offsets at which the reader can
\* hand out its next entry, none below the offset it was started at.
ReaderOffsets(start) == start .. MaxPos

\* shard_of(fm): the cpu that owns the partition of the mutation, any cpu.
OwningShards(e) == Cpus

\* shard_file_map: the key of a file is shard_id % smp::count.
KeyOf(f) == f.shard % smp_count

\* bucket_count() of the unordered_multimap once it holds n elements. The
\* library chooses it: a default-constructed libstdc++ table has the single
\* bucket, and the first insertions grow it to 2 and then 5 buckets or
\* straight to 13, depending on the release.
BucketCounts(n) == IF n = 0 THEN {1} ELSE IF n = 1 THEN {2, 13} ELSE {5, 13}

\* bucket(key): std::hash<unsigned> is the identity.
BucketOf(key, b) == key % b

Bijections(n, I) == {m \in [1 .. n -> I] : \A i, j \in 1 .. n : m[i] = m[j] => i = j}

\* The elements map->begin(id) .. map->end(id) visits. With an unsigned
\* argument these are the local iterators of bucket number id: the files
\* whose key hashes to that bucket, in an order the container does not
\* promise. A bucket number that is no bucket (id >= bucket_count) is
\* undefined behaviour: the loop visits nothing or the process dies.
WorkLists(fl, id, b) ==
    IF id >= b THEN {<<>>}
    ELSE LET I == {i \in DOMAIN fl : BucketOf(KeyOf(fl[i]), b) = id}
             n == Cardinality(I)
         IN  {[j \in 1 .. n |-> fl[m[j]]] : m \in Bijections(n, I)}

LoopStarts(id, b) == IF id >= b THEN {"next", "crashed"} ELSE {"next"}

\* SegmentStart reading every segment from its first byte.
SegmentStartNoSeek(f, minv) ==
    IF f.shard \notin DOMAIN minv THEN [do |-> "throw", off |-> 0]
    ELSE [do |-> "read", off |-> 0]

\* impl::recover(file), up to the call of read_log_file.
\* "throw": _min_pos.at() finds no entry for the shard of the file.
SegmentStart(f, minv) ==
    IF f.shard \notin DOMAIN minv THEN [do |-> "throw", off |-> 0]
    ELSE LET gp == minv[f.shard]
         IN  IF f.id < gp.id THEN [do |-> "skip", off |-> 0]
             ELSE [do |-> "read", off |-> IF f.id = gp.id THEN gp.pos ELSE 0]

\* Process with the skip checks ahead of the schema lookup.
ProcessSkipFirst(e, rp, cm, rpmv, minv) ==
    IF e.bad THEN [out |-> "invalid", cm |-> cm]
    ELSE IF rp.shard \notin DOMAIN minv THEN [out |-> "invalid", cm |-> cm]
    ELSE IF PosLess(rp, minv[rp.shard]) THEN [out |-> "skipped", cm |-> cm]
    ELSE IF rp.shard \notin DOMAIN rpmv THEN [out |-> "invalid", cm |-> cm]
    ELSE IF e.table \in DOMAIN rpmv[rp.shard] /\ PosLeq(rp, rpmv[rp.shard][e.table])
         THEN [out |-> "skipped", cm |-> cm]
    ELSE IF e.version \notin cm /\ ~e.mapping THEN [out |-> "invalid", cm |-> cm]
    ELSE [out |-> "dispatch", cm |-> cm \cup {e.version}]

\* Process with the fine skip comparing with < where the code has <=.
ProcessStrictFine(e, rp, cm, rpmv, minv) ==
    IF e.bad THEN [out |-> "invalid", cm |-> cm]
    ELSE IF e.version \notin cm /\ ~e.mapping THEN [out |-> "invalid", cm |-> cm]
    ELSE LET cm2 == cm \cup {e.version}
         IN  IF rp.shard \notin DOMAIN minv THEN [out |-> "invalid", cm |-> cm2]
             ELSE IF PosLess(rp, minv[rp.shard]) THEN [out |-> "skipped", cm |-> cm2]
             ELSE IF rp.shard \notin DOMAIN rpmv THEN [out |-> "invalid", cm |-> cm2]
             ELSE IF e.table \in DOMAIN rpmv[rp.shard] /\ PosLess(rp, rpmv[rp.shard][e.table])
                  THEN [out |-> "skipped", cm |-> cm2]
                  ELSE [out |-> "dispatch", cm |-> cm2]

\* Process with an unknown schema version passed over without a count.
ProcessUnknownUncounted(e, rp, cm, rpmv, minv) ==
    IF e.bad THEN [out |-> "invalid", cm |-> cm]
    ELSE IF e.version \notin cm /\ ~e.mapping THEN [out |-> "none", cm |-> cm]
    ELSE LET cm2 == cm \cup {e.version}
         IN  IF rp.shard \notin DOMAIN minv THEN [out |-> "invalid", cm |-> cm2]
             ELSE IF PosLess(rp, minv[rp.shard]) THEN [out |-> "skipped", cm |-> cm2]
             ELSE IF rp.shard \notin DOMAIN rpmv THEN [out |-> "invalid", cm |-> cm2]
             ELSE IF e.table \in DOMAIN rpmv[rp.shard] /\ PosLeq(rp, rpmv[rp.shard][e.table])
                  THEN [out |-> "skipped", cm |-> cm2]
                  ELSE [out |-> "dispatch", cm |-> cm2]

\* impl::process up to the cross-shard call: the entry is counted invalid,
\* counted skipped, or dispatched to the owning cpu. cm is the local
\* column-mapping cache (the set of schema versions it holds).
Process(e, rp, cm, rpmv, minv) ==
    IF e.bad THEN [out |-> "invalid", cm |-> cm]
    ELSE IF e.version \notin cm /\ ~e.mapping THEN [out |-> "invalid", cm |-> cm]
    ELSE LET cm2 == cm \cup {e.version}
         IN  IF rp.shard \notin DOMAIN minv THEN [out |-> "invalid", cm |-> cm2]
             ELSE IF PosLess(rp, minv[rp.shard]) THEN [out |-> "skipped", cm |-> cm2]
             ELSE IF rp.shard \notin DOMAIN rpmv THEN [out |-> "invalid", cm |-> cm2]
             ELSE IF e.table \in DOMAIN rpmv[rp.shard] /\ PosLeq(rp, rpmv[rp.shard][e.table])
                  THEN [out |-> "skipped", cm |-> cm2]
                  ELSE [out |-> "dispatch", cm |-> cm2]

\* The lambda run on the owning cpu and the handle_exception that follows
\* it: an exception of find_column_family or of the apply fails the future
\* of invoke_on, which handle_exception counts. cm is the cache of the
\* owning cpu.
ApplyOnShard(e, cm, throws) ==
    IF e.table \notin Catalogue THEN [out |-> "invalid", cm |-> cm]
    ELSE LET cm2 == IF e.version # LiveVersion THEN cm \cup {e.version} ELSE cm
         IN  IF throws THEN [out |-> "invalid", cm |-> cm2]
             ELSE [out |-> "applied", cm |-> cm2]

\* s->applied_mutations++, s->skipped_mutations++, s->invalid_mutations++
Count(s, out) ==
    CASE out = "applied" -> [s EXCEPT !.applied = @ + 1]
      [] out = "skipped" -> [s EXCEPT !.skipped = @ + 1]
      [] out = "invalid" -> [s EXCEPT !.invalid = @ + 1]
      [] OTHER -> s

\* The callback returning at once where the code returns the future of invoke_on.
AfterProcessNoWait(out) == "reading"

\* What the reader of the segment waits for after process returned: the
\* future of invoke_on with its handle_exception for a dispatched entry, a
\* ready future otherwise.
AfterProcess(out) == IF out = "dispatch" THEN "applying" ELSE "reading"

\* ReadResult with the corruption error rethrown like any other.
ReadResultCorruptFatal(s, how, bytes) ==
    CASE how = "eof" -> [ok |-> TRUE, stats |-> s]
      [] OTHER -> [ok |-> FALSE, stats |-> s]

\* ReadResult with every error swallowed.
ReadResultSwallow(s, how, bytes) ==
    CASE how = "corrupt" -> [ok |-> TRUE, stats |-> [s EXCEPT !.corrupt = @ + bytes]]
      [] OTHER -> [ok |-> TRUE, stats |-> s]

\* The then_wrapped continuation of impl::recover: how reading ended.
ReadResult(s, how, bytes) ==
    CASE how = "eof" -> [ok |-> TRUE, stats |-> s]
      [] how = "corrupt" -> [ok |-> TRUE, stats |-> [s EXCEPT !.corrupt = @ + bytes]]
      [] OTHER -> [ok |-> FALSE, stats |-> s]

VARIABLES
    phase,      \* "init", "ready" (init done), "replay", "done"
    truncs,     \* the truncation log: table -> set of positions
    reduced,    \* number of cpus whose map has gone through the reducer
    rpm,        \* _rpm: shard -> (uuid -> replay_position)
    min_pos,    \* _min_pos: shard -> replay_position
    files,      \* the list given to recover
    queue,      \* per cpu: the files still to replay, current one first
    pc,         \* per cpu: "idle", "next", "reading", "applying", "done", "failed", "crashed"
    seg,        \* per cpu: the segment being read: its stats object, reader offset
                \* and the number n of entries given to process
    inflight,   \* per cpu: cross-shard applies of its entries not yet resolved
    total,      \* per cpu: the stats accumulated over finished segments
    cache,      \* per cpu: _column_mappings.local().map
    started,    \* _column_mappings is started
    result,     \* how recover(files) completed: "none", "ok", "failed"
    totals,     \* the reduced stats of a successful recover
    last,       \* history, per cpu: the entry last given to process
    ended,      \* history, per cpu: how the last impl::recover(file) ended
    inFiles,    \* history: framed entries contained in the files handled so far
    beyond,     \* history: an entry was read that no truncation record covers
    readFailed, \* history: reading a segment failed with a non-corruption error
    replayed    \* history, per cpu: the files impl::recover(file) was called for

ivars == <<smp_count, phase, truncs, reduced, rpm, min_pos>>
rvars == <<files, queue, pc, seg, inflight, total, cache, started, result, totals, last,
           ended, inFiles, beyond, readFailed, replayed>>
vars == <<smp_count, phase, truncs, reduced, rpm, min_pos, files, queue, pc, seg, inflight,
          total, cache, started, result, totals, last, ended, inFiles, beyond, readFailed,
          replayed>>

NoSeg == [file |-> BadName, stats |-> ZeroStats, off |-> 0, n |-> 0]

\* s->done() of the reader resolves when every callback has resolved.
DrainedEarly(c) == pc[c] \in {"reading", "applying"}

\* The stream of read_log_file is done (line 226): the reader has stopped and
\* the future of its last callback has resolved.
Drained(c) == pc[c] = "reading" /\ inflight[c] = 0
NoEnd == [how |-> "none", bytes |-> 0]
NoLast == [e |-> BadEntry, seen |-> FALSE, threw |-> FALSE]

InitReplay ==
    /\ files = <<>>
    /\ queue = [c \in Cpus |-> <<>>]
    /\ pc = [c \in Cpus |-> "idle"]
    /\ seg = [c \in Cpus |-> NoSeg]
    /\ inflight = [c \in Cpus |-> 0]
    /\ total = [c \in Cpus |-> ZeroStats]
    /\ cache = [c \in Cpus |-> {}]
    /\ started = FALSE
    /\ result = "none"
    /\ totals = ZeroStats
    /\ last = [c \in Cpus |-> NoLast]
    /\ ended = [c \in Cpus |-> NoEnd]
    /\ inFiles = 0
    /\ beyond = FALSE
    /\ readFailed = FALSE
    /\ replayed = [c \in Cpus |-> <<>>]

InitWatermarks(count, truncSets) ==
    /\ smp_count = count
    /\ phase = "init"
    /\ truncs \in truncSets
    /\ reduced = 0
    /\ rpm = EmptyMap
    /\ min_pos = EmptyMap
    /\ InitReplay

\* One cpu's mapper runs over the sstables it holds and its result goes
\* through the reducer; map_reduce reduces the results in cpu order.
InitShard(c, snapshots) ==
    /\ phase = "init"
    /\ c = reduced
    /\ \E sst \in snapshots :
       \E uu \in [Catalogue -> Catalogue \cup {GarbageId}] :
          /\ \A t \in Catalogue : uu[t] \in UuidReads(t)
          /\ \A t \in Catalogue : truncs[t] = {} => uu[t] = t
          /\ LET st == Reducer([rpm |-> rpm, min |-> min_pos], Mapper(sst, truncs, uu))
             IN  /\ rpm' = st.rpm
                 /\ min_pos' = st.min
    /\ reduced' = reduced + 1
    /\ UNCHANGED <<smp_count, phase, truncs, rvars>>

InitFinally ==
    /\ phase = "init"
    /\ reduced = smp_count
    /\ min_pos' = Finally(rpm, min_pos)
    /\ phase' = "ready"
    /\ UNCHANGED <<smp_count, truncs, reduced, rpm, rvars>>

\* init() alone, over every combination of sstable and truncation positions.
InitW == InitWatermarks(ShardCount, [Catalogue -> AtMostOne(TruncPositions)])

NextW ==
    \/ \E c \in Cpus : InitShard(c, [Catalogue -> AtMostOne(SstPositions)])
    \/ InitFinally

SpecW == InitW /\ [][NextW]_vars

\* ------------------------------------------------------ recover(files)
\* commitlog_replayer::recover(std::vector<sstring>): parse every name, key
\* the files by cpu, start the column-mapping caches and submit the per-cpu
\* loops. A name that does not parse throws before anything is started.
Recover(fl) ==
    /\ phase = "ready"
    /\ files' = fl
    /\ IF \E i \in DOMAIN fl : ~fl[i].named
       THEN /\ phase' = "done"
            /\ result' = "failed"
            /\ UNCHANGED <<queue, pc, started, cache>>
       ELSE /\ phase' = "replay"
            /\ \E b \in BucketCounts(Len(fl)) :
                  /\ queue' \in {q \in [Cpus -> UNION {WorkLists(fl, c, b) : c \in Cpus}] :
                                   \A c \in Cpus : q[c] \in WorkLists(fl, c, b)}
                  /\ pc' \in {q \in [Cpus -> {"next", "crashed"}] :
                                \A c \in Cpus : q[c] \in LoopStarts(c, b)}
            /\ started' = TRUE
            /\ cache' = [c \in Cpus |-> {}]
            /\ UNCHANGED result
    /\ replayed' = [c \in Cpus |-> <<>>]
    /\ UNCHANGED <<smp_count, truncs, reduced, rpm, min_pos, seg, inflight, total, totals,
                   last, ended, inFiles, beyond, readFailed>>

Min(a, b) == IF a < b THEN a ELSE b

\* History: a truncation record of the entry's table, written by the shard
\* of the entry, lies at or after the entry.
TruncCovered(e, rp) ==
    /\ ~e.bad
    /\ e.table \in Catalogue
    /\ \E p \in truncs[e.table] : p.shard = rp.shard /\ PosLeq(rp, p)

\* The do_for_each lambda calls impl::recover(file) for the next file. A
\* fully flushed file returns empty stats at once, which the loop adds to
\* its total before it goes on.
StartSegment(c) ==
    /\ phase = "replay"
    /\ pc[c] = "next"
    /\ queue[c] # <<>>
    /\ LET f == Head(queue[c])
           st == SegmentStart(f, min_pos)
       IN  CASE st.do = "throw" ->
                  \* the file is not opened: it holds some number of entries
                  /\ \E n \in 0 .. Min(1, MaxEntries - inFiles) : inFiles' = inFiles + n
                  /\ pc' = [pc EXCEPT ![c] = "failed"]
                  /\ ended' = [ended EXCEPT ![c] = [how |-> "nomin", bytes |-> 0]]
                  /\ UNCHANGED <<seg, total, queue>>
             [] st.do = "skip" ->
                  /\ \E n \in 0 .. Min(1, MaxEntries - inFiles) : inFiles' = inFiles + n
                  /\ total' = [total EXCEPT ![c] = StatsAdd(@, ZeroStats)]
                  /\ queue' = [queue EXCEPT ![c] = Tail(@)]
                  /\ ended' = [ended EXCEPT ![c] = [how |-> "skipped", bytes |-> 0]]
                  /\ UNCHANGED <<seg, pc>>
             [] OTHER ->
                  \* the reader seeks to st.off: entries below it are not read
                  /\ \E k \in 0 .. Min(st.off, Min(1, MaxEntries - inFiles)) :
                        inFiles' = inFiles + k
                  /\ seg' = [seg EXCEPT ![c] = [file |-> f, stats |-> ZeroStats,
                                                off |-> st.off, n |-> 0]]
                  /\ pc' = [pc EXCEPT ![c] = "reading"]
                  /\ UNCHANGED <<total, queue, ended>>
    /\ replayed' = [replayed EXCEPT ![c] = Append(@, Head(queue[c]))]
    /\ last' = [last EXCEPT ![c] = NoLast]
    /\ UNCHANGED <<ivars, files, inflight, cache, started, result, totals, beyond, readFailed>>

\* The reader hands the next frame of the segment to impl::process.
ReadEntry(c) ==
    /\ phase = "replay"
    /\ pc[c] = "reading"
    /\ inFiles < MaxEntries
    /\ \E e \in Entries : \E off \in ReaderOffsets(seg[c].off) :
          LET f == seg[c].file
              rp == Pos(f.shard, f.id, off)
              r == Process(e, rp, cache[c], rpm, min_pos)
          IN  /\ cache' = [cache EXCEPT ![c] = r.cm]
              /\ seg' = [seg EXCEPT ![c].off = off + 1, ![c].n = @ + 1,
                                     ![c].stats = Count(@, r.out)]
              /\ last' = [last EXCEPT ![c] =
                            [e |-> e, seen |-> TRUE, threw |-> FALSE]]
              /\ inflight' = [inflight EXCEPT ![c] = IF r.out = "dispatch" THEN @ + 1 ELSE @]
              /\ pc' = [pc EXCEPT ![c] = AfterProcess(r.out)]
              /\ beyond' = (beyond \/ ~TruncCovered(e, rp))
    /\ inFiles' = inFiles + 1
    /\ UNCHANGED <<ivars, files, queue, total, started, result, totals, ended, readFailed,
                   replayed>>

\* The dispatched entry runs on the cpu that owns its partition (any cpu)
\* and the future of invoke_on resolves on the reading cpu.
Apply(c) ==
    /\ phase = "replay"
    /\ inflight[c] > 0
    /\ LET e == last[c].e
       IN  \E d \in OwningShards(e) : \E throws \in BOOLEAN :
             /\ e.table \notin Catalogue => ~throws
             /\ LET r == ApplyOnShard(e, cache[d], throws)
                IN  /\ cache' = [cache EXCEPT ![d] = r.cm]
                    /\ seg' = [seg EXCEPT ![c].stats = Count(@, r.out)]
             /\ last' = [last EXCEPT ![c].threw = throws \/ e.table \notin Catalogue]
    /\ inflight' = [inflight EXCEPT ![c] = @ - 1]
    /\ pc' = [pc EXCEPT ![c] = IF @ = "applying" THEN "reading" ELSE @]
    /\ UNCHANGED <<ivars, files, queue, total, started, result, totals, ended, inFiles,
                   beyond, readFailed, replayed>>

\* Reading the segment ends: at its end, at corrupt data, or with another
\* error. impl::recover(file) resolves and the loop adds its stats to the total.
EndSegment(c) ==
    /\ phase = "replay"
    /\ Drained(c)
    /\ \E how \in {"eof", "corrupt", "ioerror"} : \E bytes \in 0 .. MaxCorrupt :
          /\ (how = "corrupt") = (bytes > 0)
          /\ ended' = [ended EXCEPT ![c] = [how |-> how, bytes |-> bytes]]
          /\ readFailed' = (readFailed \/ how = "ioerror")
          /\ LET r == ReadResult(seg[c].stats, how, bytes)
             IN  IF r.ok
                 THEN /\ total' = [total EXCEPT ![c] = StatsAdd(@, r.stats)]
                      /\ queue' = [queue EXCEPT ![c] = Tail(@)]
                      /\ pc' = [pc EXCEPT ![c] = "next"]
                 ELSE /\ pc' = [pc EXCEPT ![c] = "failed"]
                      /\ UNCHANGED <<total, queue>>
    /\ seg' = [seg EXCEPT ![c] = NoSeg]
    /\ last' = [last EXCEPT ![c] = NoLast]
    /\ UNCHANGED <<ivars, files, inflight, cache, started, result, totals, inFiles, beyond,
                   replayed>>

\* do_for_each has visited every file of the cpu.
FinishShard(c) ==
    /\ phase = "replay"
    /\ pc[c] = "next"
    /\ queue[c] = <<>>
    /\ pc' = [pc EXCEPT ![c] = "done"]
    /\ ended' = [ended EXCEPT ![c] = NoEnd]
    /\ UNCHANGED <<ivars, files, queue, seg, inflight, total, cache, started, result,
                   totals, last, inFiles, beyond, readFailed, replayed>>

\* map_reduce over all cpus resolves, then the finally stops the caches.
Complete ==
    /\ phase = "replay"
    /\ \A c \in Cpus : pc[c] \in {"done", "failed"}
    /\ IF \E c \in Cpus : pc[c] = "failed"
       THEN /\ result' = "failed"
            /\ UNCHANGED totals
       ELSE /\ result' = "ok"
            /\ totals' = StatsSum(total, Cpus)
    /\ started' = FALSE
    /\ cache' = [c \in Cpus |-> {}]
    /\ phase' = "done"
    /\ UNCHANGED <<smp_count, truncs, reduced, rpm, min_pos, files, queue, pc, seg,
                   inflight, total, last, ended, inFiles, beyond, readFailed, replayed>>

\* init() and recover(files) of one boot. The catalogue snapshots a cpu can
\* hold: no sstable at all, sstables of t1 only, or of both tables, flushed
\* at the position ReplayPos(sh) of a writing shard.
ReplayPos(sh) == Pos(sh, MaxSeg, WatermarkPos)

ReplaySnapshots ==
    {[t \in Catalogue |-> {}]} \cup
    {[t \in Catalogue |-> IF t = "t1" THEN {ReplayPos(0)} ELSE {}]} \cup
    {[t \in Catalogue |-> {ReplayPos(sh)}] : sh \in ShardIds}

\* The truncation log holds nothing, or one record of t1 written by shard 0.
ReplayTruncs ==
    {[t \in Catalogue |-> {}], [t \in Catalogue |-> IF t = "t1" THEN {ReplayPos(0)} ELSE {}]}

Init == InitWatermarks(ShardCount, ReplayTruncs)

Next ==
    \/ \E c \in Cpus : InitShard(c, ReplaySnapshots)
    \/ InitFinally
    \/ \E fl \in FileLists : Recover(fl)
    \/ \E c \in Cpus : StartSegment(c)
    \/ \E c \in Cpus : ReadEntry(c)
    \/ \E c \in Cpus : Apply(c)
    \/ \E c \in Cpus : EndSegment(c)
    \/ \E c \in Cpus : FinishShard(c)
    \/ Complete

Spec == Init /\ [][Next]_vars

\* recover(files) at the grain of whole files, on a boot with WideCount cpus:
\* every cpu holds one sstable of t1, flushed at the position of its own
\* shard, the truncation log is empty and the segments hold no entry.
WideSnapshots(c) == {[t \in Catalogue |-> IF t = "t1" THEN {ReplayPos(c)} ELSE {}]}

InitWide == InitWatermarks(WideCount, {[t \in Catalogue |-> {}]})

NextWide ==
    \/ \E c \in Cpus : InitShard(c, WideSnapshots(c))
    \/ InitFinally
    \/ \E fl \in FileLists : Recover(fl)
    \/ \E c \in Cpus : StartSegment(c)
    \/ \E c \in Cpus : EndSegment(c)
    \/ \E c \in Cpus : FinishShard(c)
    \/ Complete

SpecWide == InitWide /\ [][NextWide]_vars

\* ===================================================================
\* Properties
\* ===================================================================

\* rp <= the recorded position of table t on the shard of rp, in the terms
\* of the specification: lexicographic on (segment id, offset).
FineCovered(t, rp) ==
    /\ rp.shard \in DOMAIN rpm
    /\ t \in DOMAIN rpm[rp.shard]
    /\ LET tp == rpm[rp.shard][t]
       IN  rp.id < tp.id \/ (rp.id = tp.id /\ rp.pos <= tp.pos)

\* rp < the global minimum of the shard of rp.
CoarseCovered(rp) ==
    /\ rp.shard \in DOMAIN min_pos
    /\ LET gp == min_pos[rp.shard]
       IN  rp.id < gp.id \/ (rp.id = gp.id /\ rp.pos < gp.pos)

\* The position of the entry last given to process on cpu c.
LastPos(c) == Pos(seg[c].file.shard, seg[c].file.id, seg[c].off - 1)

\* C1: no double apply. Whenever the applied counter of a segment grows, the
\* entry that was applied is not at or below the recorded position of its
\* table on its writing shard; a position equal to the record is not applied.
C1_NoDoubleApply ==
    [][\A c \in Cpus :
          seg'[c].stats.applied > seg[c].stats.applied
             => ~FineCovered(last[c].e.table, LastPos(c))]_vars

\* An entry exactly at the recorded position of its table was given to
\* process and counted skipped.
C1_Witness ==
    \E c \in Cpus :
       /\ pc[c] = "reading"
       /\ last[c].seen
       /\ ~last[c].e.bad
       /\ last[c].e.mapping
       /\ FineCovered(last[c].e.table, LastPos(c))
       /\ rpm[LastPos(c).shard][last[c].e.table] = LastPos(c)
       /\ ~CoarseCovered(LastPos(c))
       /\ seg[c].stats = [ZeroStats EXCEPT !.skipped = 1]

\* C2: empty world. With no durable position on any shard, recover of one
\* well-named segment succeeds and applies every entry the segment holds.
C2_EmptyWorld ==
    (/\ phase = "done"
     /\ rpm = EmptyMap
     /\ \A t \in Catalogue : truncs[t] = {}
     /\ Len(files) = 1
     /\ files[1].named)
       => (/\ result = "ok"
           /\ totals = [applied |-> inFiles, skipped |-> 0, invalid |-> 0, corrupt |-> 0])

\* C3: after init, a shard that lacks a catalogue table in _rpm (also a shard
\* no table contributed to) has the empty position as its global minimum.
C3_MissingTableZeroMin ==
    phase = "ready" =>
       \A sh \in ShardIds : \A t \in Catalogue :
          (sh \notin DOMAIN rpm \/ t \notin DOMAIN rpm[sh])
             => (sh \in DOMAIN min_pos /\ min_pos[sh] = EmptyPos)

\* C4: truncation is honoured. As long as every entry read lies at or below
\* a truncation record of its table and writing shard, nothing is applied.
C4_TruncationHonoured ==
    ~beyond => \A c \in Cpus : seg[c].stats.applied = 0 /\ total[c].applied = 0

\* C5: an entry covered by the global minimum or by the record of its table
\* is counted skipped, once, and nothing else; the entries of a segment that
\* is passed over as fully flushed are counted skipped too.
C5_CoveredCountedSkipped ==
    [][\A c \in Cpus :
          /\ (/\ pc[c] = "reading"
              /\ seg'[c].off > seg[c].off
              /\ ~last'[c].e.bad
              /\ LET rp == Pos(seg[c].file.shard, seg[c].file.id, seg'[c].off - 1)
                 IN  CoarseCovered(rp) \/ FineCovered(last'[c].e.table, rp))
                => seg'[c].stats = [seg[c].stats EXCEPT !.skipped = @ + 1]
          /\ (/\ pc[c] = "next"
              /\ pc'[c] = "next"
              /\ queue'[c] # queue[c])
                => total'[c] = [total[c] EXCEPT !.skipped = @ + (inFiles' - inFiles)]]_vars

\* C6: accounting is complete. After a successful recover without corrupt
\* data, applied + skipped + invalid is the number of entries in the files.
C6_AccountingComplete ==
    (phase = "done" /\ result = "ok" /\ totals.corrupt = 0)
       => Counted(totals) = inFiles

\* C7: dropped table. When the table of a dispatched entry is not in the
\* catalogue, the apply completes without any counter moving and the reader
\* goes on.
C7_DroppedTableSilent ==
    [][\A c \in Cpus :
          (pc[c] = "applying" /\ pc'[c] # "applying" /\ last[c].e.table \notin Catalogue)
             => (seg'[c].stats = seg[c].stats /\ pc'[c] = "reading")]_vars

\* C8: corruption is contained. When reading a segment ends with corrupt
\* data of some bytes, the counts of the entries read so far reach the total
\* of the cpu unchanged, corrupt grows by those bytes, and the cpu goes on
\* with the rest of its list.
C8_CorruptionContained ==
    [][\A c \in Cpus :
          (pc[c] = "reading" /\ pc'[c] \notin {"reading", "applying"}
             /\ ended'[c].how = "corrupt")
             => (/\ total'[c] = StatsAdd(total[c],
                                 [seg[c].stats EXCEPT !.corrupt = @ + ended'[c].bytes])
                 /\ ended'[c].bytes > 0
                 /\ pc'[c] = "next"
                 /\ queue'[c] = Tail(queue[c]))]_vars

\* A cpu reads a further segment after one that ended in corrupt data, and
\* its total holds the entry applied before the corruption.
C8_Witness ==
    \E c \in Cpus :
       /\ pc[c] = "reading"
       /\ ended[c].how = "corrupt"
       /\ total[c].corrupt = ended[c].bytes
       /\ total[c].applied = 1

\* C9: per-entry failures are contained. A buffer that does not decode, an
\* entry of unknown schema version without a mapping, and an entry whose
\* apply raises each add one to invalid and nothing else, and the reader
\* goes on with the segment.
C9_EntryFailureContained ==
    [][\A c \in Cpus :
          /\ (/\ pc[c] = "reading"
              /\ seg'[c].off > seg[c].off
              /\ \/ last'[c].e.bad
                 \/ (last'[c].e.version \notin cache[c] /\ ~last'[c].e.mapping))
                => (/\ seg'[c].stats = [seg[c].stats EXCEPT !.invalid = @ + 1]
                    /\ pc'[c] = "reading")
          /\ (pc[c] = "applying" /\ pc'[c] # "applying" /\ last'[c].threw)
                => (/\ seg'[c].stats = [seg[c].stats EXCEPT !.invalid = @ + 1]
                    /\ pc'[c] = "reading")]_vars

\* After an entry counted invalid, the next entry of the segment was applied.
C9_Witness ==
    \E c \in Cpus :
       /\ pc[c] = "reading"
       /\ last[c].seen
       /\ ~last[c].e.bad
       /\ last[c].e.mapping
       /\ last[c].e.table \in Catalogue
       /\ ~last[c].threw
       /\ seg[c].stats = [ZeroStats EXCEPT !.invalid = 1, !.applied = 1]

\* C10: a genuine read failure is fatal. Once reading a segment has failed
\* with an error other than corruption, recover completes with a failure and
\* the column-mapping caches are stopped.
C10_ReadFailureFatal ==
    (phase = "done" /\ readFailed)
       => (result = "failed" /\ ~started /\ \A c \in Cpus : cache[c] = {})

\* recover has completed after a read failure on one cpu while another cpu
\* finished its own list.
C10_Witness ==
    /\ phase = "done"
    /\ readFailed
    /\ \E c \in Cpus : pc[c] = "failed" /\ ended[c].how = "ioerror"
    /\ \E c \in Cpus : pc[c] = "done" /\ Counted(total[c]) > 0

\* The number of times impl::recover(file) was called for f on cpu c.
Replays(c, f) == Cardinality({i \in DOMAIN replayed[c] : replayed[c][i] = f})

\* C11: a malformed segment name is fatal to that file only. When recover
\* was given a list with a name that does not parse, every well-named file
\* of the list has still been replayed by some cpu.
C11_BadNameOnlyThatFile ==
    (phase = "done" /\ \E i \in DOMAIN files : ~files[i].named)
       => \A i \in DOMAIN files :
             files[i].named => \E c \in Cpus : Replays(c, files[i]) > 0

\* C12: segments are serial per shard. A cpu calls impl::recover for its next
\* file only when it has no segment open and no apply in flight, and when the
\* reading of a segment ends every entry given to process has been counted
\* skipped, invalid or applied.
C12_SegmentsSerial ==
    [][\A c \in Cpus :
          /\ replayed'[c] # replayed[c]
                => (pc[c] = "next" /\ inflight[c] = 0 /\ seg[c] = NoSeg)
          /\ (pc[c] \in {"reading", "applying"} /\ pc'[c] \in {"next", "failed"})
                => (inflight[c] = 0 /\ Counted(seg[c].stats) = seg[c].n)]_vars

\* A cpu reads its second segment after the first one was drained with an
\* entry applied on another cpu's behalf or its own.
C12_Witness ==
    \E c \in Cpus :
       /\ Len(replayed[c]) = 2
       /\ pc[c] = "reading"
       /\ total[c].applied = 1
       /\ seg[c].n = 1

\* C13: every file given to recover is replayed exactly once, on the cpu
\* numbered shard_id % smp::count, and on no other cpu.
C13_EachFileOnceOnItsShard ==
    (phase = "done" /\ result = "ok") =>
       \A i \in DOMAIN files :
          /\ Replays(KeyOf(files[i]), files[i])
                = Cardinality({j \in DOMAIN files : files[j] = files[i]})
          /\ \A c \in Cpus \ {KeyOf(files[i])} : Replays(c, files[i]) = 0

\* q lists elements of fl in the order in which fl holds them.
InOrderOf(q, fl) ==
    \E m \in [1 .. Len(q) -> 1 .. Len(fl)] :
       /\ \A j \in 1 .. Len(q) : q[j] = fl[m[j]]
       /\ \A j, k \in 1 .. Len(q) : j < k => m[j] < m[k]

\* C14: within one cpu the segments are processed in the order of the list
\* given to recover, and the entries of a segment in file order.
C14_SuppliedOrder ==
    [][/\ (phase = "ready" /\ phase' = "replay")
             => \A c \in Cpus : InOrderOf(queue'[c], files')
       /\ \A c \in Cpus :
             /\ (pc[c] = "next" /\ queue'[c] # queue[c]) => queue'[c] = Tail(queue[c])
             /\ seg'[c].n > seg[c].n => seg'[c].off > seg[c].off]_vars

\* a <= b and a = b in the order of the specification: (segment id, offset).
AtOrBefore(a, b) == a.id < b.id \/ (a.id = b.id /\ a.pos <= b.pos)
SamePlace(a, b) == a.id = b.id /\ a.pos = b.pos

\* C15: after init, on a shard whose map holds every catalogue table, the
\* global minimum is the least of the recorded per-table positions.
C15_MinIsMinOfMax ==
    phase = "ready" =>
       \A sh \in DOMAIN rpm :
          Catalogue \subseteq DOMAIN rpm[sh] =>
             /\ sh \in DOMAIN min_pos
             /\ \E t \in DOMAIN rpm[sh] : SamePlace(min_pos[sh], rpm[sh][t])
             /\ \A t \in DOMAIN rpm[sh] : AtOrBefore(min_pos[sh], rpm[sh][t])

\* C16: after init, the global minimum of a shard is at or before the
\* recorded position of every table the shard's map holds.
C16_MinBelowEveryMax ==
    phase = "ready" =>
       \A sh \in DOMAIN rpm : \A t \in DOMAIN rpm[sh] :
          sh \in DOMAIN min_pos /\ AtOrBefore(min_pos[sh], rpm[sh][t])

\* Init has ended with a shard that holds both tables at different
\* positions, one of them from a truncation record, and a global minimum
\* that is not the empty position.
C16_Witness ==
    /\ phase = "ready"
    /\ \E t \in Catalogue : truncs[t] # {}
    /\ \E sh \in DOMAIN rpm :
          /\ Catalogue \subseteq DOMAIN rpm[sh]
          /\ ~SamePlace(rpm[sh]["t1"], rpm[sh]["t2"])
          /\ ~SamePlace(min_pos[sh], EmptyPos)

\* C17: at most one entry per reading cpu is in flight. When the reader
\* gives an entry to process, no apply of an earlier entry of the cpu is
\* unresolved and every earlier entry of the segment is in a counter of its
\* stats object; the number of unresolved applies never exceeds one.
C17_OneInFlight ==
    [][\A c \in Cpus :
          /\ inflight'[c] <= 1
          /\ seg'[c].n > seg[c].n
                => (inflight[c] = 0 /\ Counted(seg[c].stats) = seg[c].n)]_vars

\* The second entry of a segment is in flight after the first was applied.
C17_Witness ==
    \E c \in Cpus :
       /\ pc[c] = "applying"
       /\ inflight[c] = 1
       /\ seg[c].n = 2
       /\ seg[c].stats = [ZeroStats EXCEPT !.applied = 1]

\* C18: the column-mapping cache is strictly local to its cpu. Between the
\* start and the stop of the caches, the cache of a cpu changes only when
\* that cpu decodes an entry of a segment it reads or when the apply of an
\* entry it decoded resolves; it never gains a mapping from an entry that
\* another cpu decoded.
C18_CacheShardLocal ==
    [][\A d \in Cpus :
          (phase' = phase /\ cache'[d] # cache[d])
             => (seg'[d].n > seg[d].n \/ inflight'[d] < inflight[d])]_vars

\* C19: the coarse skip of process is unreachable through recover. Every
\* entry given to process lies at or after the global minimum of its shard,
\* and an entry is counted skipped only under the record of its own table.
C19_CoarseSkipUnreachable ==
    [][\A c \in Cpus :
          seg'[c].n > seg[c].n
             => LET rp == Pos(seg[c].file.shard, seg[c].file.id, seg'[c].off - 1)
                IN  /\ ~CoarseCovered(rp)
                    /\ seg'[c].stats.skipped > seg[c].stats.skipped
                          => FineCovered(last'[c].e.table, rp)]_vars

\* An entry was given to process in the segment that holds the global
\* minimum of its shard, which the reader entered at the minimum's offset.
C19_Witness ==
    \E c \in Cpus :
       /\ pc[c] \in {"reading", "applying"}
       /\ seg[c].n = 1
       /\ seg[c].file.shard \in DOMAIN min_pos
       /\ min_pos[seg[c].file.shard].id = seg[c].file.id
       /\ min_pos[seg[c].file.shard].pos > 0
       /\ LastPos(c) = min_pos[seg[c].file.shard]

\* C20: the schema lookup precedes the skip checks. A decodable entry that
\* carries a column mapping leaves its schema version in the cache of the
\* reading cpu also when it is counted skipped, and an entry without a
\* mapping whose version is in that cache and which no watermark covers is
\* dispatched for apply, not counted invalid.
C20_SkippedEntryFeedsCache ==
    [][\A c \in Cpus :
          (seg'[c].n > seg[c].n /\ ~last'[c].e.bad)
             => LET e == last'[c].e
                    rp == Pos(seg[c].file.shard, seg[c].file.id, seg'[c].off - 1)
                    covered == CoarseCovered(rp) \/ FineCovered(e.table, rp)
                IN  /\ (e.mapping /\ covered)
                          => (/\ e.version \in cache'[c]
                              /\ seg'[c].stats = [seg[c].stats EXCEPT !.skipped = @ + 1])
                    /\ (~e.mapping /\ e.version \in cache[c] /\ ~covered)
                          => (pc'[c] = "applying" /\ seg'[c].stats = seg[c].stats)]_vars

\* After a skipped entry that carried the mapping of its version, the next
\* entry of the segment, without a mapping, was applied.
C20_Witness ==
    \E c \in Cpus :
       /\ pc[c] = "reading"
       /\ last[c].seen
       /\ ~last[c].e.bad
       /\ ~last[c].e.mapping
       /\ ~last[c].threw
       /\ seg[c].n = 2
       /\ seg[c].stats = [ZeroStats EXCEPT !.skipped = 1, !.applied = 1]
====
